---- MODULE Spec2Model ----
(***************************************************************************)
(* A model of the rage-pad audio engine (audio-engine/src): the sample     *)
(* channel (RingBuffer), the file playback source (FilePlayback), the      *)
(* mixer state with its control operations and its capture and render      *)
(* callbacks (MixerState), and the command loop of the process driver      *)
(* (main, handle_command).                                                 *)
(*                                                                         *)
(* Samples, gains and volumes are f32 in the source.  They are modelled    *)
(* as integers counted in units of 1/One, so One stands for 1.0; every     *)
(* value the model uses is a multiple of 1/One whose products are exact.   *)
(***************************************************************************)
EXTENDS Integers, Sequences, FiniteSets, TLC

\* ------------------------------------------------------------------ bounds

\* Capacity of the sample channel (48_000 in MixerState::new, scaled down).
RingCap == 2
\* Longest slice one capture callback or one push call hands over.
MaxPush == 2
\* Longest decoded file.
FileLen == 2
\* Longest buffer of one render callback or one mix_into call.
MaxBuf == 2
\* Lines the process driver reads in one session.
MaxLines == 3
\* Samples the producer pushes in one run of the concurrent channel.
SpscTotal == 6

\* 1.0 in the model's fixed-point unit.
One == 4

\* ------------------------------------------------------------- value sets

\* Samples a push call of the channel harness may carry (distinct, to see order).
Samples == {1, 2}
\* What an output buffer holds before pop writes into it.
Stale == 9
\* Samples of a decoded file (1.0 and -1.0) and what a mix_into buffer may already hold.
FileSamples == {One, -One}
Prior == {0, One}
\* Per-file gains after the clamp of play_file.
Gains == {One \div 2, One}

Min(a, b) == IF a <= b THEN a ELSE b

\* Sequences over S of length lo..hi.
SeqsOf(S, lo, hi) == UNION {[1..n -> S] : n \in lo..hi}

Zeros(n) == [i \in 1..n |-> 0]

\* a * b for two values in units of 1/One.
Mul(a, b) == (a * b) \div One

Clamp(x, lo, hi) == IF x < lo THEN lo ELSE IF x > hi THEN hi ELSE x

\* ----------------------------------------------------------- RingBuffer

\* RingBuffer::new: cursors are 0-based as in the source, buf is 1-based.
RingNew(capacity) == [buf |-> Zeros(capacity), write |-> 0, read |-> 0]

\* RingBuffer::available
Available(rb) ==
  IF rb.write >= rb.read
  THEN rb.write - rb.read
  ELSE Len(rb.buf) - rb.read + rb.write

\* The loop of RingBuffer::push: write each sample at w, advance w modulo cap.
RECURSIVE PushLoop(_, _, _)
PushLoop(buf, w, samples) ==
  IF samples = <<>>
  THEN [buf |-> buf, w |-> w]
  ELSE PushLoop([buf EXCEPT ![w + 1] = Head(samples)],
                (w + 1) % Len(buf), Tail(samples))

\* RingBuffer::push
Push(rb, samples) ==
  LET r == PushLoop(rb.buf, rb.write, samples)
  IN [rb EXCEPT !.buf = r.buf, !.write = r.w]

\* The loop of RingBuffer::pop over the first n slots of out, from slot i.
RECURSIVE PopLoop(_, _, _, _, _)
PopLoop(buf, r, out, i, n) ==
  IF i > n
  THEN [r |-> r, out |-> out]
  ELSE PopLoop(buf, (r + 1) % Len(buf), [out EXCEPT ![i] = buf[r + 1]], i + 1, n)

\* pop that fills the whole buffer, whatever the channel holds.
PopFillsBuffer(rb, out) ==
  LET l == PopLoop(rb.buf, rb.read, out, 1, Len(out))
  IN [rb |-> [rb EXCEPT !.read = l.r], out |-> l.out, n |-> Len(out)]

\* RingBuffer::pop: the channel after the call, the buffer after it, the count.
Pop(rb, out) ==
  LET avail == Available(rb)
      n == Min(Len(out), avail)
      l == PopLoop(rb.buf, rb.read, out, 1, n)
  IN [rb |-> [rb EXCEPT !.read = l.r], out |-> l.out, n |-> n]

\* ---------------------------------------------------------- FilePlayback

\* An empty Playback Source slot (Option::None).
NoFile == [present |-> FALSE, samples |-> <<>>, position |-> 0, volume |-> 0]

\* Some(FilePlayback {samples, position: 0, volume})
NewFile(samples, gain) ==
  [present |-> TRUE, samples |-> samples, position |-> 0, volume |-> gain]

\* The loop of FilePlayback::mix_into from slot i of out.
RECURSIVE MixLoop(_, _, _)
MixLoop(fp, out, i) ==
  IF i > Len(out)
  THEN [fp |-> fp, out |-> out, ret |-> TRUE]
  ELSE IF fp.position >= Len(fp.samples)
  THEN [fp |-> fp, out |-> out, ret |-> FALSE]
  ELSE MixLoop([fp EXCEPT !.position = fp.position + 1],
               [out EXCEPT ![i] = out[i] + Mul(fp.samples[fp.position + 1], fp.volume)],
               i + 1)

\* The loop of mix_into storing the scaled sample instead of adding it.
RECURSIVE MixLoopOverwrites(_, _, _)
MixLoopOverwrites(fp, out, i) ==
  IF i > Len(out)
  THEN [fp |-> fp, out |-> out, ret |-> TRUE]
  ELSE IF fp.position >= Len(fp.samples)
  THEN [fp |-> fp, out |-> out, ret |-> FALSE]
  ELSE MixLoopOverwrites([fp EXCEPT !.position = fp.position + 1],
               [out EXCEPT ![i] = Mul(fp.samples[fp.position + 1], fp.volume)],
               i + 1)

\* mix_into that overwrites the buffer.
MixIntoOverwrites(fp, out) == MixLoopOverwrites(fp, out, 1)

\* mix_into that leaves the cursor where it found it.
MixIntoRewinds(fp, out) ==
  [MixLoop(fp, out, 1) EXCEPT !.fp.position = fp.position]

\* FilePlayback::mix_into: the source after the call, the buffer, the result.
MixInto(fp, out) == MixLoop(fp, out, 1)

\* ------------------------------------------------- the world outside

\* The Device Directory: the endpoints the host reports (devices.rs), and those
\* among them whose stream cannot be built or started.
InputDevices == {"Mic", "Busy Mic"}
OutputDevices == {"Cable", "Busy Cable"}
BrokenDevices == {"Busy Mic", "Busy Cable"}
DefaultInput == "Mic"
DefaultOutput == "Cable"

\* The decode service: the files it can open and decode, and their samples.
Decodable == {"a.wav"}
Unopenable == {"missing.wav"}
Decoded(path) == [i \in 1..FileLen |-> IF i % 2 = 1 THEN One ELSE -One]

\* One input line: its kind, and the fields of a command.
Line(k, name, vol) == [k |-> k, name |-> name, vol |-> vol]

\* The lines of a session that exercises the protocol.
DriverLines ==
  {Line(k, "", 0) : k \in {"blank", "malformed", "ioerr", "list_devices", "stop",
                           "pause", "resume", "get_status", "shutdown"}}
  \cup {Line("set_input_device", n, 0) : n \in {"Mic", "Busy Mic", "Nonexistent Mic"}}
  \cup {Line("set_output_device", n, 0) : n \in {"Cable", "Nonexistent Cable"}}
  \cup {Line("play", f, One \div 2) : f \in {"a.wav", "missing.wav", "corrupt.wav"}}
  \cup {Line("play", "a.wav", v) : v \in {-One, 5 * One}}
  \cup {Line("set_volume", "", v) : v \in {-One, One \div 2, 5 * One}}

\* The lines of a session that exercises the audio threads.
MixerLines ==
  {Line(k, "", 0) : k \in {"blank", "malformed", "list_devices", "stop", "pause",
                           "resume", "get_status", "shutdown"}}
  \cup {Line("set_input_device", "Mic", 0), Line("set_output_device", "Cable", 0)}
  \cup {Line("play", f, One) : f \in {"a.wav", "missing.wav", "corrupt.wav"}}
  \cup {Line("set_volume", "", One \div 2)}

\* The lines of a session that opens, replaces and fails to open streams.
StreamLines ==
  {Line("set_input_device", n, 0) : n \in {"Mic", "Nonexistent Mic"}}
  \cup {Line("set_output_device", n, 0) : n \in {"Cable", "Busy Cable", "Nonexistent Cable"}}
  \cup {Line("play", "a.wav", One)}

\* What one capture callback delivers.
CaptureBufs == SeqsOf({One}, 1, 1)

\* Responses (protocol.rs), all of one shape.
Resp(k, msg) ==
  [k |-> k, msg |-> msg, playing |-> FALSE, paused |-> FALSE, volume |-> 0,
   input_device |-> "none", output_device |-> "none"]
OkResp == Resp("ok", "")
ErrorResp(msg) == Resp("error", msg)
StatusResp(pl, pa, v, i, o) ==
  [k |-> "status", msg |-> "", playing |-> pl, paused |-> pa, volume |-> v,
   input_device |-> i, output_device |-> o]
NoResp == Resp("none", "")
NoCmd == Line("none", "", 0)
NoStatus == [vol |-> 0, playing |-> FALSE, peek |-> "unseen", after |-> FALSE]

\* ------------------------------------------------------------------ state

VARIABLES
  input_device_name,   \* MixerState.input_device_name ("none": None)
  output_device_name,  \* MixerState.output_device_name
  playing,             \* MixerState.playing
  paused,              \* MixerState.paused
  volume,              \* MixerState.volume (the value behind the mutex)
  capture_stream,      \* MixerState.capture_stream is Some
  output_stream,       \* MixerState.output_stream is Some
  ring,                \* MixerState.ring
  file_playback,       \* MixerState.file_playback (the Playback Source slot)
  fp_lock,             \* who holds the mutex of file_playback
  vol_lock,            \* who holds the mutex of volume
  cpc,                 \* control thread: where it is in main / handle_command
  cmd,                 \* control thread: the command being handled
  rsp,                 \* control thread: the response about to be written
  st,                  \* control thread: the status being put together
  rpc,                 \* render callback: where it is
  data,                \* render callback: its output buffer
  rpaused,             \* history: the last render callback found paused set
  rsrc,                \* history: what the render callback under way took from its sources
  rvols,               \* history: master volumes in effect since the last render callback ended
  finished,            \* history: the render callback cleared the slot on exhaustion
  lines,               \* history: the lines read so far
  resps,               \* history: the calls of write_response so far
  pre,                 \* history: the mixer state when the current line was read
  pushed,              \* harness: samples pushed since the last pop
  clean,               \* harness: the channel held no unread sample after the last pop
  popRes,              \* harness: what the last pop call returned
  fed,                 \* harness: total length of the buffers given to mix_into so far
  mixRes,              \* harness: what the last mix_into call returned
  prod,                \* producer: where it is in push, its cursor, samples left
  cons,                \* consumer: where it is in pop, its locals
  hist                 \* history: samples written, published and returned

deviceVars == <<input_device_name, output_device_name, capture_stream, output_stream>>
flagVars == <<playing, paused>>
lockVars == <<fp_lock, vol_lock>>
ctlVars == <<cpc, cmd, rsp, st>>
renderVars == <<rpc, data, rpaused, rsrc>>
logVars == <<lines, resps, pre>>
ringVars == <<pushed, clean, popRes>>
fileVars == <<fed, mixRes>>
spscVars == <<prod, cons, hist>>
harnessVars == <<ringVars, fileVars, spscVars>>

vars == <<deviceVars, flagVars, volume, ring, file_playback, lockVars, ctlVars,
          renderVars, rvols, finished, logVars, harnessVars>>

\* The Mixer State as one value.
Mixer ==
  [input_device_name |-> input_device_name, output_device_name |-> output_device_name,
   playing |-> playing, paused |-> paused, volume |-> volume,
   capture_stream |-> capture_stream, output_stream |-> output_stream,
   ring |-> ring, file_playback |-> file_playback]

NoPop == [valid |-> FALSE, n |-> 0, out |-> <<>>, expect |-> <<>>, clean |-> FALSE]
NoMix == [valid |-> FALSE, pre |-> 0, k |-> 0, ret |-> FALSE, before |-> <<>>, out |-> <<>>]
\* No render callback under way: nothing taken from the channel or the slot.
NoSrc == [mic |-> <<>>, file |-> <<>>, gain |-> 0, locked |-> FALSE]
\* A producer outside push, a consumer outside pop.
NoPush == [pc |-> "idle", w |-> 0, rest |-> 0]
NoPopCall == [pc |-> "idle", w |-> 0, pub |-> 0, k |-> 0, r |-> 0, n |-> 0, i |-> 0]

\* MixerState::new, and the process driver before its first line.
InitMixer ==
  /\ input_device_name = "none"
  /\ output_device_name = "none"
  /\ playing = FALSE
  /\ paused = FALSE
  /\ volume = One
  /\ capture_stream = FALSE
  /\ output_stream = FALSE
  /\ fp_lock = "free"
  /\ vol_lock = "free"
  /\ cpc = "read"
  /\ cmd = NoCmd
  /\ rsp = NoResp
  /\ st = NoStatus
  /\ rpc = "idle"
  /\ data = <<>>
  /\ rpaused = FALSE
  /\ rsrc = NoSrc
  /\ rvols = {One}
  /\ finished = FALSE

\* The channel and the slot as MixerState::new makes them.
InitShared ==
  /\ ring = RingNew(RingCap)
  /\ file_playback = NoFile

\* Nothing read or written yet.
InitLog ==
  /\ lines = <<>>
  /\ resps = <<>>
  /\ pre = Mixer

InitHarness ==
  /\ pushed = <<>>
  /\ clean = TRUE
  /\ popRes = NoPop
  /\ fed = 0
  /\ mixRes = NoMix
  /\ prod = NoPush
  /\ cons = NoPopCall
  /\ hist = [written |-> 0, published |-> 0, returned |-> <<>>]

mixerVars == <<deviceVars, flagVars, volume, lockVars, ctlVars, renderVars, rvols,
               finished, logVars>>

\* ------------------------------------------------ the channel on its own

InitRing == InitMixer /\ InitShared /\ InitHarness /\ InitLog

\* One push call of the producer.
RingPush ==
  \E samples \in SeqsOf(Samples, 1, MaxPush) :
    /\ Len(pushed) + Len(samples) <= RingCap + 1
    /\ ring' = Push(ring, samples)
    /\ pushed' = pushed \o samples
    /\ UNCHANGED <<clean, popRes, fileVars, spscVars, file_playback, mixerVars>>

\* One pop call of the consumer into a buffer of k slots.
RingPop ==
  \E k \in 0..(RingCap + 1) :
    LET res == Pop(ring, [i \in 1..k |-> Stale])
    IN /\ ring' = res.rb
       /\ popRes' = [valid |-> TRUE, n |-> res.n, out |-> res.out,
                     expect |-> pushed, clean |-> clean]
       /\ pushed' = <<>>
       /\ clean' = (Available(res.rb) = 0)
       /\ UNCHANGED <<fileVars, spscVars, file_playback, mixerVars>>

NextRing == RingPush \/ RingPop

SpecRing == InitRing /\ [][NextRing]_vars

\* ------------------------------- the channel with producer and consumer
\* One producer inside push and one consumer inside pop, a step at each load or
\* store of a cursor and at each write or read of a slot.  The producer's
\* samples are numbered 1, 2, ... in push order.  A push begins only when its
\* samples fit: the unread count never exceeds the capacity.

spscFrame == <<ringVars, fileVars, file_playback, mixerVars>>

\* Samples written to a slot and not read from it yet.
Unread == hist.written - Len(hist.returned)

\* push with the cursor published before the slots are written.
ProducerLoadPublishesFirst ==
  \E k \in 1..MaxPush :
    /\ prod.pc = "idle"
    /\ Unread + k <= RingCap
    /\ hist.written + k <= SpscTotal
    /\ prod' = [pc |-> "write", w |-> ring.write, rest |-> k]
    /\ ring' = [ring EXCEPT !.write = (ring.write + k) % Len(ring.buf)]
    /\ hist' = [hist EXCEPT !.published = hist.written + k]
    /\ UNCHANGED <<cons, spscFrame>>

\* push, lines 49-51: a call with k samples begins and loads the write cursor.
ProducerLoad ==
  \E k \in 1..MaxPush :
    /\ prod.pc = "idle"
    /\ Unread + k <= RingCap
    /\ hist.written + k <= SpscTotal
    /\ prod' = [pc |-> "write", w |-> ring.write, rest |-> k]
    /\ UNCHANGED <<ring, cons, hist, spscFrame>>

\* push, lines 54-57: one turn of the loop writes a slot and advances w.
ProducerWrite ==
  /\ prod.pc = "write"
  /\ ring' = [ring EXCEPT !.buf[prod.w + 1] = hist.written + 1]
  /\ hist' = [hist EXCEPT !.written = hist.written + 1]
  /\ prod' = [pc |-> IF prod.rest = 1 THEN "store" ELSE "write",
              w |-> (prod.w + 1) % Len(ring.buf), rest |-> prod.rest - 1]
  /\ UNCHANGED <<cons, spscFrame>>

\* push, line 58: the write cursor is stored.
ProducerStore ==
  /\ prod.pc = "store"
  /\ ring' = [ring EXCEPT !.write = prod.w]
  /\ hist' = [hist EXCEPT !.published = hist.written]
  /\ prod' = NoPush
  /\ UNCHANGED <<cons, spscFrame>>

\* pop, line 63 and available, line 39: a call with a buffer of k slots begins
\* and loads the write cursor.
ConsumerLoadWrite ==
  \E k \in 1..MaxBuf :
    /\ cons.pc = "idle"
    /\ cons' = [NoPopCall EXCEPT !.pc = "read", !.w = ring.write,
                                 !.pub = hist.published, !.k = k]
    /\ UNCHANGED <<ring, prod, hist, spscFrame>>

\* available, lines 40-45, and pop, lines 64-66: the read cursor is loaded, the
\* count is settled.  Only the consumer stores the read cursor, so its loads
\* all see the same value.
ConsumerLoadRead ==
  /\ cons.pc = "read"
  /\ LET avail == Available([ring EXCEPT !.write = cons.w])
         n == Min(cons.k, avail)
     IN cons' = [cons EXCEPT !.pc = IF n = 0 THEN "store" ELSE "copy",
                             !.r = ring.read, !.n = n]
  /\ UNCHANGED <<ring, prod, hist, spscFrame>>

\* pop, lines 67-70: one turn of the loop reads a slot and advances r.
ConsumerCopy ==
  /\ cons.pc = "copy"
  /\ hist' = [hist EXCEPT !.returned =
                Append(@, [v |-> ring.buf[cons.r + 1], pub |-> cons.pub])]
  /\ cons' = [cons EXCEPT !.pc = IF cons.i + 1 = cons.n THEN "store" ELSE "copy",
                          !.r = (cons.r + 1) % Len(ring.buf), !.i = cons.i + 1]
  /\ UNCHANGED <<ring, prod, spscFrame>>

\* pop, lines 71-72: the read cursor is stored.
ConsumerStore ==
  /\ cons.pc = "store"
  /\ ring' = [ring EXCEPT !.read = cons.r]
  /\ cons' = NoPopCall
  /\ UNCHANGED <<prod, hist, spscFrame>>

InitSpsc == InitMixer /\ InitShared /\ InitHarness /\ InitLog

NextSpsc ==
  \/ ProducerLoad \/ ProducerWrite \/ ProducerStore
  \/ ConsumerLoadWrite \/ ConsumerLoadRead \/ ConsumerCopy \/ ConsumerStore

SpecSpsc == InitSpsc /\ [][NextSpsc]_vars

\* -------------------------------------------- the file source on its own

InitFile ==
  /\ InitMixer
  /\ InitHarness
  /\ ring = RingNew(RingCap)
  /\ \E s \in SeqsOf(FileSamples, 1, FileLen), g \in Gains :
       file_playback = NewFile(s, g)
  /\ InitLog

\* One mix_into call with a non-empty buffer.
MixCall ==
  \E before \in SeqsOf(Prior, 1, MaxBuf) :
    LET res == MixInto(file_playback, before)
    IN /\ fed + Len(before) <= FileLen + MaxBuf
       /\ file_playback' = res.fp
       /\ fed' = fed + Len(before)
       /\ mixRes' = [valid |-> TRUE, pre |-> file_playback.position,
                     k |-> Len(before), ret |-> res.ret,
                     before |-> before, out |-> res.out]
       /\ UNCHANGED <<ring, ringVars, spscVars, mixerVars>>

NextFile == MixCall

SpecFile == InitFile /\ [][NextFile]_vars

\* ------------------------------------------------- the control thread
\* The steps of main and handle_command.  A step ends at each access to state
\* shared with the callbacks (a flag, a mutex), so that the callbacks interleave
\* where they can in the program.  None of these steps touches the channel, the
\* render callback's buffer; only reading a line and writing a response add to the
\* history of lines and responses.

ctlFrame == <<renderVars, rvols, ring, harnessVars>>
handleFrame == <<ctlFrame, logVars>>

\* handle_command returns Some(r): main goes on to write it.
Return(r) == cpc' = "wresp" /\ rsp' = r

\* ReadLine with a blank line answered like a line that does not parse.
ReadLineAnswersBlank(l) ==
  /\ cpc = "read"
  /\ IF l.k \in {"blank", "ioerr", "malformed"}
     THEN cpc' = "werr" /\ rsp' = ErrorResp("Invalid JSON command") /\ UNCHANGED cmd
     ELSE cpc' = "handle" /\ cmd' = l /\ UNCHANGED rsp
  /\ st' = [st EXCEPT !.after = finished]
  /\ UNCHANGED <<deviceVars, flagVars, volume, file_playback, lockVars,
                 finished, ctlFrame>>

\* main, lines 39-63: read one line, skip it when blank, answer a read error or
\* a parse failure, otherwise hand the command to handle_command.  The history
\* notes whether the line came after the render callback finished the file.
ReadLine(l) ==
  /\ cpc = "read"
  /\ IF l.k = "blank"
     THEN UNCHANGED <<cpc, cmd, rsp>>
     ELSE IF l.k = "ioerr"
     THEN cpc' = "werr" /\ rsp' = ErrorResp("stdin read error") /\ UNCHANGED cmd
     ELSE IF l.k = "malformed"
     THEN cpc' = "werr" /\ rsp' = ErrorResp("Invalid JSON command") /\ UNCHANGED cmd
     ELSE cpc' = "handle" /\ cmd' = l /\ UNCHANGED rsp
  /\ st' = [st EXCEPT !.after = finished]
  /\ UNCHANGED <<deviceVars, flagVars, volume, file_playback, lockVars,
                 finished, ctlFrame>>

\* main, line 39: the input is closed and the loop ends.
EndOfInput ==
  /\ cpc = "read"
  /\ cpc' = "exit"
  /\ UNCHANGED <<cmd, rsp, deviceVars, flagVars, volume, file_playback, lockVars,
                 st, finished, handleFrame>>

\* WriteError leaving the loop when the write fails, as WriteResponse does.
WriteErrorGivesUp(ok) ==
  /\ cpc = "werr"
  /\ cpc' = IF ok THEN "read" ELSE "exit"
  /\ rsp' = NoResp
  /\ UNCHANGED <<cmd, deviceVars, flagVars, volume, file_playback, lockVars, st,
                 finished, ctlFrame>>

\* main, lines 56-61: write the error of a line that did not parse and continue,
\* whatever the write returns.
WriteError(ok) ==
  /\ cpc = "werr"
  /\ cpc' = "read"
  /\ rsp' = NoResp
  /\ UNCHANGED <<cmd, deviceVars, flagVars, volume, file_playback, lockVars, st,
                 finished, ctlFrame>>

\* main, lines 69-73: write the response of handle_command; leave when the write fails.
WriteResponse(ok) ==
  /\ cpc = "wresp"
  /\ cpc' = IF ok THEN "read" ELSE "exit"
  /\ rsp' = NoResp
  /\ cmd' = NoCmd
  /\ st' = NoStatus
  /\ UNCHANGED <<deviceVars, flagVars, volume, file_playback, lockVars,
                 finished, ctlFrame>>

\* WriteShutdown going back to read the next line.
WriteShutdownGoesOn(ok) ==
  /\ cpc = "wbye"
  /\ cpc' = "read"
  /\ rsp' = NoResp
  /\ cmd' = NoCmd
  /\ UNCHANGED <<deviceVars, flagVars, volume, file_playback, lockVars, st,
                 finished, ctlFrame>>

\* main, lines 74-78: acknowledge shutdown and leave.
WriteShutdown(ok) ==
  /\ cpc = "wbye"
  /\ cpc' = "exit"
  /\ rsp' = NoResp
  /\ cmd' = NoCmd
  /\ UNCHANGED <<deviceVars, flagVars, volume, file_playback, lockVars, st,
                 finished, ctlFrame>>

\* handle_command, ListDevices.
ListDevices ==
  /\ cpc = "handle" /\ cmd.k = "list_devices"
  /\ Return(Resp("devices", ""))
  /\ UNCHANGED <<cmd, deviceVars, flagVars, volume, file_playback, lockVars, st,
                 finished, handleFrame>>

\* handle_command, SetInputDevice, up to start_capture dropping the old stream
\* (main.rs 94, mixer.rs 156).
SetInputDevice ==
  /\ cpc = "handle" /\ cmd.k = "set_input_device"
  /\ input_device_name' = cmd.name
  /\ capture_stream' = FALSE
  /\ cpc' = "cap_open"
  /\ UNCHANGED <<output_device_name, output_stream, cmd, rsp, flagVars, volume,
                 file_playback, lockVars, st, finished, handleFrame>>

\* What start_capture / start_output return once the old stream is dropped:
\* the device is resolved, then the stream is built and started.
StartResult(name, directory, default, side) ==
  LET device == IF name = "none" THEN default ELSE name
  IN IF device \notin directory
     THEN IF name = "none"
          THEN ErrorResp("No default " \o side \o " device available")
          ELSE ErrorResp(IF side = "input" THEN "Input device not found"
                                            ELSE "Output device not found")
     ELSE IF device \in BrokenDevices
     THEN ErrorResp("Failed to build " \o side \o " stream")
     ELSE OkResp

\* start_capture, mixer.rs 158-188: the new stream is stored on success only.
StartCapture ==
  /\ cpc = "cap_open"
  /\ LET r == StartResult(input_device_name, InputDevices, DefaultInput, "input")
     IN /\ IF r.k = "ok" THEN capture_stream' = TRUE ELSE UNCHANGED capture_stream
        /\ Return(r)
  /\ UNCHANGED <<input_device_name, output_device_name, output_stream, cmd,
                 flagVars, volume, file_playback, lockVars, st, finished, handleFrame>>

\* SetOutputDevice with start_output keeping the old stream while it opens the
\* new one.
SetOutputDeviceKeepsStream ==
  /\ cpc = "handle" /\ cmd.k = "set_output_device"
  /\ output_device_name' = cmd.name
  /\ cpc' = "out_open"
  /\ UNCHANGED <<input_device_name, capture_stream, output_stream, cmd, rsp, flagVars,
                 volume, file_playback, lockVars, st, finished, handleFrame>>

\* handle_command, SetOutputDevice, up to start_output dropping the old stream
\* (main.rs 102, mixer.rs 193).  Dropping a stream joins its callback thread,
\* so the step waits for a running render callback to return.
SetOutputDevice ==
  /\ cpc = "handle" /\ cmd.k = "set_output_device"
  /\ rpc = "idle"
  /\ output_device_name' = cmd.name
  /\ output_stream' = FALSE
  /\ cpc' = "out_open"
  /\ UNCHANGED <<input_device_name, capture_stream, cmd, rsp, flagVars, volume,
                 file_playback, lockVars, st, finished, handleFrame>>

\* start_output, mixer.rs 195-267: the new stream is stored on success only.
StartOutput ==
  /\ cpc = "out_open"
  /\ LET r == StartResult(output_device_name, OutputDevices, DefaultOutput, "output")
     IN /\ IF r.k = "ok" THEN output_stream' = TRUE ELSE UNCHANGED output_stream
        /\ Return(r)
  /\ UNCHANGED <<input_device_name, output_device_name, capture_stream, cmd,
                 flagVars, volume, file_playback, lockVars, st, finished, handleFrame>>

\* PlayDecode ending the current playback before it opens the new file.
PlayDecodeStopsFirst ==
  /\ cpc = "handle" /\ cmd.k = "play"
  /\ playing' = FALSE
  /\ IF cmd.name \in Unopenable
     THEN Return(ErrorResp("Cannot open file"))
     ELSE IF cmd.name \notin Decodable
     THEN Return(ErrorResp("Cannot decode audio file"))
     ELSE cpc' = "play_lock" /\ UNCHANGED rsp
  /\ UNCHANGED <<cmd, deviceVars, paused, volume, file_playback, lockVars, st,
                 finished, handleFrame>>

\* play_file, mixer.rs 274-288: open and decode the file.
PlayDecode ==
  /\ cpc = "handle" /\ cmd.k = "play"
  /\ IF cmd.name \in Unopenable
     THEN Return(ErrorResp("Cannot open file"))
     ELSE IF cmd.name \notin Decodable
     THEN Return(ErrorResp("Cannot decode audio file"))
     ELSE cpc' = "play_lock" /\ UNCHANGED rsp
  /\ UNCHANGED <<cmd, deviceVars, flagVars, volume, file_playback, lockVars, st,
                 finished, handleFrame>>

\* play_file, mixer.rs 290: file_playback.lock() waits for the mutex.
PlayLock ==
  /\ cpc = "play_lock"
  /\ fp_lock = "free"
  /\ fp_lock' = "ctl"
  /\ cpc' = "play_install"
  /\ UNCHANGED <<cmd, rsp, deviceVars, flagVars, volume, file_playback, vol_lock,
                 st, finished, handleFrame>>

\* play_file, mixer.rs 290: store the new source in the slot and drop the guard.
PlayInstall ==
  /\ cpc = "play_install"
  /\ file_playback' = NewFile(Decoded(cmd.name), Clamp(cmd.vol, 0, One))
  /\ fp_lock' = "free"
  /\ finished' = FALSE
  /\ cpc' = "play_flag"
  /\ UNCHANGED <<cmd, rsp, deviceVars, flagVars, volume, vol_lock, st, handleFrame>>

\* play_file, mixer.rs 291-292: set the playing flag and return Ok.
PlayFlag ==
  /\ cpc = "play_flag"
  /\ playing' = TRUE
  /\ Return(OkResp)
  /\ UNCHANGED <<cmd, deviceVars, paused, volume, file_playback, lockVars, st,
                 finished, handleFrame>>

\* stop, mixer.rs 297: clear the playing flag.
StopFlag ==
  /\ cpc = "handle" /\ cmd.k = "stop"
  /\ playing' = FALSE
  /\ cpc' = "stop_lock"
  /\ UNCHANGED <<cmd, rsp, deviceVars, paused, volume, file_playback, lockVars, st,
                 finished, handleFrame>>

\* stop, mixer.rs 298: file_playback.lock() waits for the mutex.
StopLock ==
  /\ cpc = "stop_lock"
  /\ fp_lock = "free"
  /\ fp_lock' = "ctl"
  /\ cpc' = "stop_clear"
  /\ UNCHANGED <<cmd, rsp, deviceVars, flagVars, volume, file_playback, vol_lock,
                 st, finished, handleFrame>>

\* stop that sets the flag again once the slot is empty.
StopClearSetsFlag ==
  /\ cpc = "stop_clear"
  /\ file_playback' = NoFile
  /\ playing' = ~file_playback.present
  /\ fp_lock' = "free"
  /\ Return(OkResp)
  /\ UNCHANGED <<cmd, deviceVars, paused, volume, vol_lock, st, finished, handleFrame>>

\* stop, mixer.rs 299-300: empty the slot and drop the guard.
StopClear ==
  /\ cpc = "stop_clear"
  /\ file_playback' = NoFile
  /\ fp_lock' = "free"
  /\ Return(OkResp)
  /\ UNCHANGED <<cmd, deviceVars, flagVars, volume, vol_lock, st, finished, handleFrame>>

\* A pause that also clears the playing flag.
PauseClearsPlaying ==
  /\ cpc = "handle" /\ cmd.k = "pause"
  /\ paused' = TRUE
  /\ playing' = FALSE
  /\ Return(OkResp)
  /\ UNCHANGED <<cmd, deviceVars, volume, file_playback, lockVars, st,
                 finished, handleFrame>>

\* pause, mixer.rs 304-306.
Pause ==
  /\ cpc = "handle" /\ cmd.k = "pause"
  /\ paused' = TRUE
  /\ Return(OkResp)
  /\ UNCHANGED <<cmd, deviceVars, playing, volume, file_playback, lockVars, st,
                 finished, handleFrame>>

\* resume, mixer.rs 309-311.
Resume ==
  /\ cpc = "handle" /\ cmd.k = "resume"
  /\ paused' = FALSE
  /\ Return(OkResp)
  /\ UNCHANGED <<cmd, deviceVars, playing, volume, file_playback, lockVars, st,
                 finished, handleFrame>>

\* set_volume, mixer.rs 315: volume.lock() waits for the mutex.
VolumeLock ==
  /\ cpc = "handle" /\ cmd.k = "set_volume"
  /\ vol_lock = "free"
  /\ vol_lock' = "ctl"
  /\ cpc' = "vol_store"
  /\ UNCHANGED <<cmd, rsp, deviceVars, flagVars, volume, file_playback, fp_lock,
                 st, finished, handleFrame>>

\* set_volume storing the volume as it came.
VolumeStoreUnclamped ==
  /\ cpc = "vol_store"
  /\ volume' = cmd.vol
  /\ rvols' = rvols \cup {volume'}
  /\ vol_lock' = "free"
  /\ Return(OkResp)
  /\ UNCHANGED <<cmd, deviceVars, flagVars, file_playback, fp_lock, st, finished,
                 renderVars, ring, harnessVars, logVars>>

\* set_volume, mixer.rs 316-317: store the clamped volume and drop the guard.
\* The history notes the new value for the buffer period under way.
VolumeStore ==
  /\ cpc = "vol_store"
  /\ volume' = Clamp(cmd.vol, 0, One)
  /\ rvols' = rvols \cup {volume'}
  /\ vol_lock' = "free"
  /\ Return(OkResp)
  /\ UNCHANGED <<cmd, deviceVars, flagVars, file_playback, fp_lock, st, finished,
                 renderVars, ring, harnessVars, logVars>>

\* handle_command, GetStatus, main.rs 135: volume.lock() waits for the mutex.
StatusVolumeLock ==
  /\ cpc = "handle" /\ cmd.k = "get_status"
  /\ vol_lock = "free"
  /\ vol_lock' = "ctl"
  /\ cpc' = "st_vol"
  /\ UNCHANGED <<cmd, rsp, st, deviceVars, flagVars, volume, file_playback, fp_lock,
                 finished, handleFrame>>

\* handle_command, GetStatus, main.rs 135: read the volume and drop the guard.
StatusVolumeRead ==
  /\ cpc = "st_vol"
  /\ st' = [st EXCEPT !.vol = volume]
  /\ vol_lock' = "free"
  /\ cpc' = "st_flag"
  /\ UNCHANGED <<cmd, rsp, deviceVars, flagVars, volume, file_playback, fp_lock,
                 finished, handleFrame>>

\* is_playing, mixer.rs 324-326: load the playing flag.
IsPlayingFlag ==
  /\ cpc = "st_flag"
  /\ IF playing
     THEN cpc' = "st_try" /\ UNCHANGED st
     ELSE cpc' = "st_paused" /\ st' = [st EXCEPT !.playing = FALSE]
  /\ UNCHANGED <<cmd, rsp, deviceVars, flagVars, volume, file_playback, lockVars,
                 finished, handleFrame>>

\* is_playing, mixer.rs 327 and 333: file_playback.try_lock(); when the mutex is
\* held the source is not looked at and the answer is true.
IsPlayingTryLock ==
  /\ cpc = "st_try"
  /\ IF fp_lock = "free"
     THEN fp_lock' = "ctl" /\ cpc' = "st_peek" /\ UNCHANGED st
     ELSE /\ UNCHANGED fp_lock
          /\ cpc' = "st_paused"
          /\ st' = [st EXCEPT !.playing = TRUE,
                              !.peek = IF file_playback.present THEN "full" ELSE "empty"]
  /\ UNCHANGED <<cmd, rsp, deviceVars, flagVars, volume, file_playback, vol_lock,
                 finished, handleFrame>>

\* is_playing, mixer.rs 328-333: with the guard, an empty slot clears the flag.
IsPlayingPeek ==
  /\ cpc = "st_peek"
  /\ IF file_playback.present
     THEN /\ st' = [st EXCEPT !.playing = TRUE, !.peek = "full"]
          /\ UNCHANGED playing
     ELSE /\ st' = [st EXCEPT !.playing = FALSE, !.peek = "empty"]
          /\ playing' = FALSE
  /\ fp_lock' = "free"
  /\ cpc' = "st_paused"
  /\ UNCHANGED <<cmd, rsp, deviceVars, paused, volume, file_playback, vol_lock,
                 finished, handleFrame>>

\* handle_command, GetStatus, main.rs 136-142: load paused, build the response.
StatusPaused ==
  /\ cpc = "st_paused"
  /\ Return(StatusResp(st.playing, paused, st.vol, input_device_name,
                       output_device_name))
  /\ UNCHANGED <<cmd, deviceVars, flagVars, volume, file_playback, lockVars, st,
                 finished, handleFrame>>

\* handle_command, Shutdown: None, which main acknowledges with Ok.
Shutdown ==
  /\ cpc = "handle" /\ cmd.k = "shutdown"
  /\ cpc' = "wbye"
  /\ rsp' = OkResp
  /\ UNCHANGED <<cmd, deviceVars, flagVars, volume, file_playback, lockVars, st,
                 finished, handleFrame>>

\* A step of handle_command.
Handle ==
  \/ ListDevices
  \/ SetInputDevice \/ StartCapture
  \/ SetOutputDevice \/ StartOutput
  \/ PlayDecode \/ PlayLock \/ PlayInstall \/ PlayFlag
  \/ StopFlag \/ StopLock \/ StopClear
  \/ Pause \/ Resume
  \/ VolumeLock \/ VolumeStore
  \/ StatusVolumeLock \/ StatusVolumeRead
  \/ IsPlayingFlag \/ IsPlayingTryLock \/ IsPlayingPeek \/ StatusPaused
  \/ Shutdown

\* --------------------------------------------------- the audio callbacks
\* The callbacks run on the audio threads while their stream is open and the
\* process lives.  A step ends at each access to shared state.

audioFrame == <<deviceVars, ctlVars, logVars, harnessVars>>
\* The steps of a callback under way leave the history of volumes alone.
stepFrame == <<rvols, audioFrame>>

\* The capture callback, mixer.rs 173-178: nothing when paused, else push.
Capture ==
  /\ capture_stream /\ cpc # "exit"
  /\ \E samples \in CaptureBufs :
       ring' = IF paused THEN ring ELSE Push(ring, samples)
  /\ UNCHANGED <<flagVars, volume, file_playback, lockVars, renderVars, finished,
                 stepFrame>>

\* RenderBegin without the check of paused.
RenderBeginIgnoresPause ==
  /\ output_stream /\ cpc # "exit"
  /\ rpc = "idle"
  /\ \E n \in 1..MaxBuf : data' = Zeros(n)
  /\ rpc' = "pop"
  /\ rpaused' = paused
  /\ rsrc' = IF rpc' = "idle" THEN NoSrc
             ELSE [NoSrc EXCEPT !.mic = Zeros(Len(data')), !.file = Zeros(Len(data'))]
  /\ rvols' = IF rpc' = "idle" THEN {volume} ELSE rvols
  /\ UNCHANGED <<flagVars, volume, ring, file_playback, lockVars, finished,
                 audioFrame>>

\* The render callback without the zeroing of 215-217: the device's buffer still
\* holds what the previous callback wrote.
RenderBeginKeepsBuffer ==
  /\ output_stream /\ cpc # "exit"
  /\ rpc = "idle"
  /\ \E n \in 1..MaxBuf :
       data' = [i \in 1..n |-> IF i <= Len(data) THEN data[i] ELSE 0]
  /\ rpc' = IF paused THEN "idle" ELSE "pop"
  /\ rpaused' = paused
  /\ rsrc' = IF rpc' = "idle" THEN NoSrc
             ELSE [NoSrc EXCEPT !.mic = Zeros(Len(data')), !.file = Zeros(Len(data'))]
  /\ rvols' = IF rpc' = "idle" THEN {volume} ELSE rvols
  /\ UNCHANGED <<flagVars, volume, ring, file_playback, lockVars, finished,
                 audioFrame>>

\* The render callback, mixer.rs 213-221: zero the buffer, return when paused.
RenderBegin ==
  /\ output_stream /\ cpc # "exit"
  /\ rpc = "idle"
  /\ \E n \in 1..MaxBuf : data' = Zeros(n)
  /\ rpc' = IF paused THEN "idle" ELSE "pop"
  /\ rpaused' = paused
  /\ rsrc' = IF rpc' = "idle" THEN NoSrc
             ELSE [NoSrc EXCEPT !.mic = Zeros(Len(data')), !.file = Zeros(Len(data'))]
  /\ rvols' = IF rpc' = "idle" THEN {volume} ELSE rvols
  /\ UNCHANGED <<flagVars, volume, ring, file_playback, lockVars, finished,
                 audioFrame>>

\* The render callback, mixer.rs 225: pop the microphone samples into the buffer.
RenderPop ==
  /\ rpc = "pop"
  /\ LET res == Pop(ring, data)
     IN ring' = res.rb /\ data' = res.out
  /\ rsrc' = [rsrc EXCEPT !.mic =
       [i \in 1..Len(data) |->
          IF i <= Available(ring)
          THEN ring.buf[((ring.read + i - 1) % Len(ring.buf)) + 1] ELSE 0]]
  /\ rpc' = "flag"
  /\ UNCHANGED <<rpaused, flagVars, volume, file_playback, lockVars, finished, stepFrame>>

\* The render callback, mixer.rs 228: load the playing flag.
RenderPlaying ==
  /\ rpc = "flag"
  /\ rpc' = IF playing THEN "try" ELSE "vol"
  /\ UNCHANGED <<data, rpaused, rsrc, flagVars, volume, ring, file_playback, lockVars,
                 finished, stepFrame>>

\* The render callback waiting for the slot mutex instead of trying it.
RenderLockWaits ==
  /\ rpc = "try"
  /\ fp_lock = "free"
  /\ fp_lock' = "render" /\ rpc' = "mix"
  /\ UNCHANGED <<data, rpaused, rsrc, flagVars, volume, ring, file_playback, vol_lock,
                 finished, stepFrame>>

\* The render callback, mixer.rs 229: file_playback.try_lock(), skipped when held.
RenderTryLock ==
  /\ rpc = "try"
  /\ IF fp_lock = "free"
     THEN fp_lock' = "render" /\ rpc' = "mix"
     ELSE UNCHANGED fp_lock /\ rpc' = "vol"
  /\ UNCHANGED <<data, rpaused, rsrc, flagVars, volume, ring, file_playback, vol_lock,
                 finished, stepFrame>>

\* The render callback, mixer.rs 230-240: mix the source on top, empty the slot
\* when mix_into returns false, drop the guard.
RenderMix ==
  /\ rpc = "mix"
  /\ IF file_playback.present
     THEN LET res == MixInto(file_playback, data)
          IN /\ data' = res.out
             /\ file_playback' = IF res.ret THEN res.fp ELSE NoFile
             /\ finished' = (finished \/ ~res.ret)
     ELSE UNCHANGED <<data, file_playback, finished>>
  /\ rsrc' = [rsrc EXCEPT
       !.locked = TRUE,
       !.gain = file_playback.volume,
       !.file = [i \in 1..Len(data) |->
          IF file_playback.position + i <= Len(file_playback.samples)
          THEN file_playback.samples[file_playback.position + i] ELSE 0]]
  /\ fp_lock' = "free"
  /\ rpc' = "vol"
  /\ UNCHANGED <<rpaused, flagVars, volume, ring, vol_lock, stepFrame>>

\* The buffer after the master volume step, mixer.rs 244-251: scaled when the
\* mutex is free and the volume is not 1.0.
Scaled(buf, locked, v) ==
  IF locked \/ v = One THEN buf ELSE [i \in 1..Len(buf) |-> Mul(buf[i], v)]

\* The render callback, mixer.rs 243-256: volume.try_lock(), scale, clamp.  The
\* guard is taken and dropped within the step; the buffer is what the device gets.
RenderVolume ==
  /\ rpc = "vol"
  /\ LET scaled == Scaled(data, vol_lock # "free", volume)
     IN data' = [i \in 1..Len(data) |-> Clamp(scaled[i], -One, One)]
  /\ rpc' = "idle"
  /\ rsrc' = NoSrc
  /\ rvols' = {volume}
  /\ UNCHANGED <<rpaused, flagVars, volume, ring, file_playback, lockVars, finished,
                 audioFrame>>

Render ==
  \/ RenderBegin \/ RenderPop \/ RenderPlaying \/ RenderTryLock \/ RenderMix
  \/ RenderVolume

\* ------------------------------------------- the engine with its threads

Init == InitMixer /\ InitShared /\ InitHarness /\ InitLog

\* The control thread reads a line of a session with the audio threads running.
MixerRead == \E l \in MixerLines : ReadLine(l) /\ UNCHANGED logVars

MixerWriteError == \E ok \in BOOLEAN : WriteError(ok) /\ UNCHANGED logVars
MixerWriteResponse == \E ok \in BOOLEAN : WriteResponse(ok) /\ UNCHANGED logVars
MixerWriteShutdown == \E ok \in BOOLEAN : WriteShutdown(ok) /\ UNCHANGED logVars

Next ==
  \/ MixerRead \/ EndOfInput \/ Handle
  \/ MixerWriteError \/ MixerWriteResponse \/ MixerWriteShutdown
  \/ Capture \/ Render

Spec == Init /\ [][Next]_vars

\* The engine with its threads in a session of device selections.
StreamRead == (\E l \in StreamLines : ReadLine(l)) /\ UNCHANGED logVars

NextStreams ==
  \/ StreamRead \/ EndOfInput
  \/ SetInputDevice \/ StartCapture \/ SetOutputDevice \/ StartOutput
  \/ PlayDecode \/ PlayLock \/ PlayInstall \/ PlayFlag
  \/ MixerWriteResponse
  \/ Capture \/ Render

SpecStreams == Init /\ [][NextStreams]_vars

\* --------------------------------------------- the process driver's session
\* The command loop on its own, with the history of what it read and wrote:
\* each line read (its kind), each call of write_response (the line it answers,
\* the kind of response, whether the write succeeded), and the mixer state as
\* it was when the current line was read.

Written(ok) == [line |-> Len(lines), k |-> rsp.k, msg |-> rsp.msg, ok |-> ok]

DriverRead ==
  \E l \in DriverLines :
    /\ Len(lines) < MaxLines
    /\ ReadLine(l)
    /\ lines' = Append(lines, l.k)
    /\ pre' = Mixer
    /\ UNCHANGED resps

DriverWriteError ==
  \E ok \in BOOLEAN :
    WriteError(ok) /\ resps' = Append(resps, Written(ok)) /\ UNCHANGED <<lines, pre>>

DriverWriteResponse ==
  \E ok \in BOOLEAN :
    WriteResponse(ok) /\ resps' = Append(resps, Written(ok)) /\ UNCHANGED <<lines, pre>>

DriverWriteShutdown ==
  \E ok \in BOOLEAN :
    WriteShutdown(ok) /\ resps' = Append(resps, Written(ok)) /\ UNCHANGED <<lines, pre>>

NextDriver ==
  \/ DriverRead \/ EndOfInput \/ Handle
  \/ DriverWriteError \/ DriverWriteResponse \/ DriverWriteShutdown

SpecDriver == Init /\ [][NextDriver]_vars

\* ----------------------------------------------------------------- claims

Last(q) == q[Len(q)]
ZeroBuf(b) == \A i \in 1..Len(b) : b[i] = 0
CommandKinds ==
  {"list_devices", "set_input_device", "set_output_device", "play", "stop", "pause",
   "resume", "set_volume", "get_status", "shutdown"}

\* C1: starting with no unread samples, pushes that total at most the capacity
\* (the capacity itself included) and no pop in between are followed by a pop,
\* into a buffer at least that long, that returns exactly that count and
\* exactly those samples in push order.
C1_NoLossUpToCapacity ==
  (/\ popRes.valid
   /\ popRes.clean
   /\ Len(popRes.expect) <= RingCap
   /\ Len(popRes.out) >= Len(popRes.expect))
  => /\ popRes.n = Len(popRes.expect)
     /\ SubSeq(popRes.out, 1, popRes.n) = popRes.expect

\* C2: in a series of mix_into calls with non-empty buffers whose lengths sum
\* to exactly the length of the sample sequence, every call but the last
\* returns true and the last returns false; a call after exhaustion returns
\* false.
C2_LastCallReturnsFalse ==
  mixRes.valid =>
    LET L == Len(file_playback.samples)
    IN /\ (fed < L => mixRes.ret = TRUE)
       /\ (fed = L => mixRes.ret = FALSE)
       /\ (mixRes.pre = L => mixRes.ret = FALSE)

\* C3: a get_status response says playing:true only if the slot held a source
\* at the moment is_playing decided; a flag that is true over an empty slot is
\* answered with playing:false.
C3_StatusPlayingOnlyIfSlotFull ==
  (cpc = "wresp" /\ rsp.k = "status" /\ rsp.playing) => st.peek = "full"

\* C4: once the render callback has emptied the slot at the end of the file and
\* no play followed, every get_status issued from then on says playing:false,
\* with no stop needed.
C4_StatusAfterCompletionNotPlaying ==
  (cpc = "wresp" /\ rsp.k = "status" /\ st.after) => ~rsp.playing

\* C5: a render callback that starts while paused hands over an all-zero buffer,
\* pops nothing and leaves the source and its cursor alone; while paused no
\* capture callback pushes; get_status reports the paused flag; and while paused,
\* with no render callback under way, the cursor moves only by play or stop, so
\* that after resume the file goes on from where it was.
C5_PauseStep ==
  /\ (rpc = "idle" /\ paused /\ renderVars' # renderVars)
       => /\ rpc' = "idle" /\ rpaused'
          /\ data' # <<>> /\ ZeroBuf(data')
          /\ ring' = ring
          /\ file_playback' = file_playback
  /\ paused => (ring'.buf = ring.buf /\ ring'.write = ring.write)
  /\ (cpc = "st_paused" /\ cpc' # cpc)
       => (cpc' = "wresp" /\ rsp'.k = "status" /\ rsp'.paused = paused)
  /\ (paused /\ rpc = "idle" /\ file_playback' # file_playback)
       => cpc \in {"play_install", "stop_clear"}

C5_PauseIsSilence == [][C5_PauseStep]_vars

C5_Witness ==
  /\ paused /\ rpaused /\ rpc = "idle"
  /\ data # <<>> /\ ZeroBuf(data)
  /\ Available(ring) > 0
  /\ playing /\ file_playback.present /\ file_playback.position > 0
  /\ cpc = "wresp" /\ rsp.k = "status" /\ rsp.paused

\* The lines whose handling is over.
Processed == IF cpc \in {"read", "exit"} THEN Len(lines) ELSE Len(lines) - 1

\* C6: write_response is called exactly once for each non-blank line processed,
\* never for a blank line, and in the order of the lines.
C6_OneResponsePerLine ==
  [i \in 1..Len(resps) |-> resps[i].line]
    = SelectSeq([i \in 1..Processed |-> i], LAMBDA i : lines[i] # "blank")

C6_Witness ==
  /\ cpc = "exit"
  /\ Len(lines) = 3 /\ lines[1] = "blank" /\ lines[2] = "malformed"
  /\ lines[3] = "shutdown"
  /\ Len(resps) = 2 /\ resps[1].line = 2 /\ resps[2].line = 3

\* C7: a line that does not parse is answered with one error response, leaves
\* the mixer state as it was and takes the loop back to reading; an error
\* response of handle_command that was written takes the loop back to reading
\* too, where the next command is handed to handle_command.
C7_ErrorStep ==
  /\ (cpc = "read" /\ lines' # lines /\ Last(lines') \in {"malformed", "ioerr"})
       => (cpc' = "werr" /\ rsp'.k = "error" /\ Mixer' = Mixer)
  /\ (cpc = "werr" /\ cpc' # cpc)
       => /\ cpc' = "read"
          /\ Mixer' = pre
          /\ Len(resps') = Len(resps) + 1
          /\ Last(resps').k = "error"
  /\ (cpc = "wresp" /\ rsp.k = "error" /\ resps' # resps /\ Last(resps').ok)
       => cpc' = "read"
  /\ (cpc = "read" /\ lines' # lines /\ Last(lines') \in CommandKinds)
       => (cpc' = "handle" /\ cmd'.k = Last(lines'))

C7_ErrorsAreRecoverable == [][C7_ErrorStep]_vars

C7_Witness ==
  /\ Len(resps) = 3
  /\ resps[1].msg = "Invalid JSON command" /\ resps[1].line = 1
  /\ resps[2].msg = "Input device not found" /\ resps[2].line = 2
  /\ resps[3].k = "ok" /\ resps[3].line = 3 /\ resps[3].ok
  /\ cpc = "read"

\* C8: shutdown is the last line read; it leaves the mixer state alone, is
\* answered with exactly one ok response, the last one written, and ends the
\* session.
C8_ShutdownIsTerminal ==
  \A i \in 1..Len(lines) :
    lines[i] = "shutdown" =>
      /\ i = Len(lines)
      /\ cpc \in {"handle", "wbye", "exit"}
      /\ Mixer = pre
      /\ LET mine == {j \in 1..Len(resps) : resps[j].line = i}
         IN IF cpc = "exit"
            THEN mine = {Len(resps)} /\ Last(resps).k = "ok"
            ELSE mine = {}

C8_Witness ==
  /\ cpc = "exit"
  /\ lines # <<>> /\ Last(lines) = "shutdown" /\ Len(lines) < MaxLines
  /\ Last(resps).k = "ok" /\ Last(resps).ok /\ Last(resps).line = Len(lines)
  /\ output_stream

\* C9: a play whose file cannot be opened or decoded returns an error in one
\* step that changes nothing of the mixer state: flags, slot and cursor,
\* volume, streams, locks.
C9_FailedPlayStep ==
  (/\ cpc = "handle" /\ cmd.k = "play" /\ cpc' # cpc
   /\ (cmd.name \notin Decodable \/ (cpc' = "wresp" /\ rsp'.k = "error")))
  => /\ cpc' = "wresp" /\ rsp'.k = "error"
     /\ Mixer' = Mixer
     /\ lockVars' = lockVars

C9_FailedPlayIsNoOp == [][C9_FailedPlayStep]_vars

C9_Witness ==
  /\ cpc = "wresp" /\ cmd.k = "play" /\ rsp.k = "error"
  /\ playing /\ file_playback.present /\ file_playback.position > 0

\* C10: a set_input_device / set_output_device whose device is not found is
\* answered with a "not found" error and leaves the mixer state as it was when
\* the line was read, but for the stream of that side.
C10_FailedSelectionKeepsState ==
  (/\ cpc = "wresp"
   /\ cmd.k \in {"set_input_device", "set_output_device"}
   /\ rsp.k = "error"
   /\ rsp.msg \in {"Input device not found", "Output device not found"})
  => LET side == IF cmd.k = "set_input_device" THEN "capture_stream"
                                                ELSE "output_stream"
     IN [Mixer EXCEPT ![side] = FALSE] = [pre EXCEPT ![side] = FALSE]

\* The last n elements of q (all of q when it has fewer).
LastN(q, n) == SubSeq(q, Len(q) - Min(n, Len(q)) + 1, Len(q))

\* C11: starting with no unread samples, pushes that total more than the
\* capacity and no pop in between overwrite only the oldest samples: a pop
\* into a buffer at least as long as the capacity returns the capacity's worth
\* of most recently pushed samples, in push order.
C11_OverflowKeepsNewest ==
  (/\ popRes.valid
   /\ popRes.clean
   /\ Len(popRes.expect) > RingCap
   /\ Len(popRes.out) >= RingCap)
  => /\ popRes.n = RingCap
     /\ SubSeq(popRes.out, 1, popRes.n) = LastN(popRes.expect, RingCap)

C13_PopStep ==
  (pushed' = <<>> /\ popRes'.valid) =>
    LET out == popRes'.out
        n == popRes'.n
        avail == Available(ring)
        cap == Len(ring.buf)
    IN /\ n <= Len(out) /\ n <= avail /\ (n = Len(out) \/ n = avail)
       /\ \A i \in 1..Len(out) :
            out[i] = IF i <= n THEN ring.buf[((ring.read + i - 1) % cap) + 1]
                               ELSE Stale
       /\ ring'.buf = ring.buf
       /\ ring'.write = ring.write
       /\ ring'.read = (ring.read + n) % cap
       /\ avail = 0 => (n = 0 /\ ring' = ring)

C13_PopBounds == [][C13_PopStep]_vars

C13_Witness ==
  /\ popRes.valid
  /\ popRes.n = 1 /\ Len(popRes.out) = 3
  /\ popRes.out[1] \in Samples /\ popRes.out[2] = Stale
  /\ ring.read = 0 /\ ring.write = 1

\* C14: after mix_into on a source at position p with m samples left and a
\* buffer of k slots, the first min(k, m) slots hold their old value plus the
\* sample at p + i times the gain, the other slots hold their old values, and
\* the position is p + min(k, m).
C14_MixSums ==
  mixRes.valid =>
    LET fp == file_playback
        p == mixRes.pre
        m == Len(fp.samples) - p
        j == IF mixRes.k <= m THEN mixRes.k ELSE m
    IN /\ Len(mixRes.out) = mixRes.k
       /\ \A i \in 1..mixRes.k :
            mixRes.out[i] =
              IF i <= j
              THEN mixRes.before[i] + (fp.samples[p + i] * fp.volume) \div One
              ELSE mixRes.before[i]
       /\ fp.position = p + j
       /\ fp.samples # <<>> /\ fp.volume \in Gains

C14_Witness ==
  /\ mixRes.valid
  /\ mixRes.pre = 1 /\ mixRes.k = 2 /\ Len(file_playback.samples) = 2
  /\ mixRes.before = <<One, One>>
  /\ file_playback.volume = One \div 2
  /\ mixRes.out[1] # One /\ mixRes.out[2] = One

\* v brought into [0, 1].
InUnit(v) == IF v < 0 THEN 0 ELSE IF v > One THEN One ELSE v

\* C15: the master volume is 1 until a set_volume and always within [0, 1];
\* get_status reports it; set_volume(v) stores 0 for v < 0, 1 for v > 1 and v
\* otherwise, and nothing else changes it; the gain of a played file is
\* brought into [0, 1] the same way.
C15_VolumeStep ==
  /\ 0 <= volume' /\ volume' <= One
  /\ (\A i \in 1..Len(lines') : lines'[i] # "set_volume") => volume' = One
  /\ (cpc' = "wresp" /\ rsp'.k = "status") => rsp'.volume = volume'
  /\ (cpc = "vol_store" /\ cpc' # cpc) => volume' = InUnit(cmd.vol)
  /\ volume' # volume => cpc = "vol_store"
  /\ (cpc = "play_install" /\ cpc' # cpc)
       => /\ file_playback'.present
          /\ file_playback'.position = 0
          /\ file_playback'.volume = InUnit(cmd.vol)

C15_VolumeInUnit == [][C15_VolumeStep]_vars

C15_Witness ==
  /\ lines = <<"set_volume", "play", "get_status">>
  /\ cpc = "wresp" /\ rsp.k = "status" /\ rsp.volume = One
  /\ file_playback.present /\ file_playback.volume = 0
  /\ resps[1].k = "ok" /\ resps[2].k = "ok"

\* The mixer state m once stopped.
Stopped(m) == [m EXCEPT !.playing = FALSE, !.file_playback = NoFile]

\* C16: a stop answers ok and leaves the state it found but for playing false
\* and an empty slot; a stop straight after a stop leaves the state as the
\* first one left it; a get_status straight after a stop reports playing false.
C16_StopIdempotent ==
  LET n == Len(lines)
  IN /\ (cpc = "wresp" /\ cmd.k = "stop")
          => /\ rsp = OkResp
             /\ Mixer = Stopped(pre)
             /\ (n > 1 /\ lines[n - 1] = "stop" /\ resps # <<>>
                   /\ Last(resps).line = n - 1)
                  => (Mixer = pre /\ Last(resps).k = "ok")
     /\ (cpc = "wresp" /\ cmd.k = "get_status" /\ n > 1 /\ lines[n - 1] = "stop")
          => (rsp.k = "status" /\ ~rsp.playing)

C16_Witness ==
  /\ lines = <<"play", "stop", "stop">>
  /\ cpc = "wresp" /\ rsp = OkResp
  /\ resps[1].k = "ok" /\ resps[2].k = "ok" /\ resps[2].line = 2
  /\ Mixer = pre /\ ~playing /\ ~file_playback.present

\* C17: the buffer a render callback emits is scaled by a master volume that
\* was in effect since the callback before it ended, or by the one a set_volume
\* under way is about to store, also when the volume mutex was held by the
\* control thread.
C17_VolumeStep ==
  (rpc = "vol" /\ rpc' = "idle") =>
    \E g \in rvols \cup (IF cpc = "vol_store" THEN {InUnit(cmd.vol)} ELSE {}) :
      data' = [i \in 1..Len(data) |-> Clamp((data[i] * g) \div One, -One, One)]

C17_StaleVolumeOnly == [][C17_VolumeStep]_vars

\* C18: the render callback never has the source that play_file just installed
\* before it (the slot locked for mix_into) while the playing flag is still
\* false: install and flag are one step for it.
C18_InstallAtomic ==
  ~(/\ cpc = "play_flag"
    /\ rpc = "mix" /\ fp_lock = "render"
    /\ file_playback.present /\ file_playback.position = 0
    /\ ~playing)

\* C19: a render callback under way can always take its next step, whoever
\* holds the slot mutex or the volume mutex, and each step takes it nearer to
\* its end; a capture callback can always run while its stream is open.
C19_CallbacksNeverWait ==
  /\ rpc # "idle" => ENABLED Render
  /\ (capture_stream /\ cpc # "exit") => ENABLED Capture
  /\ rpc \in {"idle", "pop", "flag", "try", "mix", "vol"}
  /\ rpc = "mix" => fp_lock = "render"

C19_Witness ==
  /\ rpc = "try" /\ fp_lock = "ctl"
  /\ vol_lock = "free"
  /\ capture_stream /\ cpc = "play_install"

\* C20: while start_capture / start_output resolves the device and opens the
\* new stream, the old stream of that side is gone and its callback cannot
\* run; a render callback runs only under the stream the mixer holds; a failed
\* start leaves the side without a stream, a successful one with its stream.
C20_CloseBeforeReopen ==
  /\ cpc = "cap_open" => (~capture_stream /\ ~ENABLED Capture)
  /\ cpc = "out_open" => (~output_stream /\ rpc = "idle" /\ ~ENABLED Render)
  /\ rpc # "idle" => output_stream
  /\ (cpc = "wresp" /\ cmd.k = "set_input_device")
       => capture_stream = (rsp.k = "ok")
  /\ (cpc = "wresp" /\ cmd.k = "set_output_device")
       => output_stream = (rsp.k = "ok")

C20_Witness ==
  /\ cpc = "wresp" /\ cmd.k = "set_output_device" /\ rsp.k = "error"
  /\ ~output_stream /\ capture_stream
  /\ data # <<>> /\ rpc = "idle"
  /\ playing /\ file_playback.present /\ file_playback.position > 0

\* The value the render callback owes slot i: the microphone sample plus the file
\* sample at its gain, times the master volume v, clamped to [-1, 1].
Owed(src, v, i) ==
  Clamp(Mul(src.mic[i] + Mul(src.file[i], src.gain), v), -One, One)

\* C21, one step: the last step of an unpaused render callback that held the slot
\* mutex and finds the volume mutex free hands the device, in every slot i,
\* clamp(v * (mic_i + file_i * gain), -1, 1), a value within [-1, 1].
C21_RenderStep ==
  (rpc = "vol" /\ rpc' = "idle" /\ rsrc.locked /\ vol_lock = "free") =>
    /\ Len(data') = Len(rsrc.mic)
    /\ \A i \in 1..Len(data') :
         /\ data'[i] = Owed(rsrc, volume, i)
         /\ data'[i] >= -One /\ data'[i] <= One

\* C21: an unpaused render callback that acquires both locks outputs
\* clamp(v * (mic_i + file_i * gain), -1, 1) in slot i, where mic_i is the i-th
\* sample popped or 0 when the channel ran out and file_i the next file sample
\* or 0 when there is none: uncovered slots are 0 and all samples lie in [-1, 1].
C21_RenderResult == [][C21_RenderStep]_vars

\* C21 happens: a callback that took the slot mutex is about to scale by a
\* master volume of one half, with the volume mutex free, a buffer of two slots
\* the microphone covered only the first of, and a file sample under it.
C21_Witness ==
  /\ rpc = "vol" /\ rsrc.locked /\ vol_lock = "free"
  /\ volume = One \div 2
  /\ Len(rsrc.mic) = 2
  /\ rsrc.mic[1] # 0 /\ rsrc.mic[2] = 0
  /\ rsrc.file[1] # 0

\* A step of the control thread while it serves a command of kind k.
Serving(k) == cmd.k = k /\ cpc # "read" /\ cpc' # cpc

\* C22, one step: what a step of pause, resume, stop or set_volume may change.
C22_TransportStep ==
  /\ Serving("pause") => Mixer' = [Mixer EXCEPT !.paused = paused']
  /\ Serving("resume") => Mixer' = [Mixer EXCEPT !.paused = paused']
  /\ Serving("set_volume") => Mixer' = [Mixer EXCEPT !.volume = volume']
  /\ Serving("stop") =>
       Mixer' = [Mixer EXCEPT !.playing = playing', !.file_playback = file_playback']

\* C22: pause and resume change only the paused flag, leaving the streams,
\* playing, the master volume, the slot with its cursor and the device names;
\* stop leaves paused, the volume, the streams and the device names;
\* set_volume changes only the master volume.
C22_TransportOrthogonal == [][C22_TransportStep]_vars

\* C22 happens: a pause has been served and is about to be answered with both
\* streams open, a file playing with its cursor advanced and the volume at one half.
C22_Witness ==
  /\ cmd.k = "pause" /\ cpc = "wresp" /\ paused
  /\ capture_stream /\ output_stream
  /\ playing /\ file_playback.present /\ file_playback.position > 0
  /\ volume = One \div 2

\* Between commands a non-empty slot has the playing flag set.
C23_SlotImpliesFlag ==
  cpc = "read" => (file_playback.present => playing)

\* The flag is not left true over an empty slot by a stop, nor by a get_status
\* that began after the render callback had emptied the slot.
C23_FlagClearedBy ==
  /\ (cpc = "wresp" /\ cmd.k = "stop") => ~(playing /\ ~file_playback.present)
  /\ (cpc = "wresp" /\ cmd.k = "get_status" /\ st.after)
       => ~(playing /\ ~file_playback.present)

\* C23: whenever the control thread is between commands, a non-empty slot
\* implies the playing flag is true, and the flag is true over an empty slot
\* only until the next get_status or stop has been served.
C23_FlagSlotConsistent == C23_SlotImpliesFlag /\ C23_FlagClearedBy

\* The number of file samples a buffer of n slots takes from the source fp.
Taken(fp, n) == Min(n, Len(fp.samples) - fp.position)

\* C24, one step.  The cursor stays within the sequence; while the same source
\* is in the slot it does not go back; only a render callback that began
\* unpaused and holds the slot mutex, or a play or a stop, changes the slot; and
\* the mixing step adds the samples from the cursor on, in order, to the first
\* slots of the buffer and moves the cursor past exactly those.
C24_CursorStep ==
  /\ file_playback'.position <= Len(file_playback'.samples)
  /\ (file_playback.present /\ file_playback'.present /\ cpc # "play_install")
       => /\ file_playback'.samples = file_playback.samples
          /\ file_playback'.position >= file_playback.position
  /\ file_playback' # file_playback
       => \/ cpc \in {"play_install", "stop_clear"} /\ cpc' # cpc
          \/ rpc = "mix" /\ rpc' = "vol" /\ ~rpaused /\ fp_lock = "render"
  /\ (rpc = "mix" /\ rpc' = "vol" /\ file_playback.present)
       => LET k == Taken(file_playback, Len(data))
          IN /\ Len(data') = Len(data)
             /\ \A i \in 1..Len(data) :
                  data'[i] = IF i <= k
                             THEN data[i] + Mul(file_playback.samples[file_playback.position + i],
                                                file_playback.volume)
                             ELSE data[i]
             /\ \/ file_playback' =
                     [file_playback EXCEPT !.position = file_playback.position + k]
                \/ /\ file_playback' = NoFile
                   /\ file_playback.position + k = Len(file_playback.samples)

\* C24: the cursor of the source only increases and never exceeds the length;
\* across render callbacks interleaved with pause, resume, set_volume and
\* get_status each file sample is mixed into at most one buffer, in sequence
\* order; a callback that skips mixing (paused, or mutex not acquired) leaves
\* the cursor unchanged, so no sample is skipped or replayed.
C24_PlayedOnceInOrder == [][C24_CursorStep]_vars

\* C24 happens: while a get_status is served, a render callback of one slot has
\* mixed the second sample of the file, an earlier one having mixed the first.
C24_Witness ==
  /\ rpc = "vol" /\ rsrc.locked
  /\ file_playback.present /\ file_playback.position = 2
  /\ rsrc.file = <<file_playback.samples[2]>>
  /\ cmd.k = "get_status" /\ cpc \notin {"read", "wresp"}
====
